---- MODULE Spec2Model ----
(***************************************************************************)
(* A model of lib/dos2unixEventEmitter.js of node-dos2unix: the classifier *)
(* determineProcessingStatusOfFile, the rewriter convertFileFromDosToUnix, *)
(* the BinaryReader and the fs write stream they drive.  Spec runs them on *)
(* one file on disk; SpecBatch runs the pipelines dos2unix and             *)
(* Dos2UnixConverter.prototype.process over the files of a batch.  Bytes   *)
(* are integers 0..255; a file is a sequence of bytes.                     *)
(***************************************************************************)
EXTENDS Integers, Sequences, FiniteSets, TLC

\* The longest file body in control units that Init draws.
MaxUnits == 4

Min(a, b) == IF a < b THEN a ELSE b

(***************************************************************************)
(* lib/util/encoding (required at line 21), modelled from its contract in  *)
(* section 4.1 of the specification.  A call that passes no bom passes the *)
(* value "undefined", which the lookup tables treat as the variant "none". *)
(***************************************************************************)
bomMap(bom) ==
  CASE bom = "utf8"    -> <<239, 187, 191>>
    [] bom = "utf16le" -> <<255, 254>>
    [] bom = "utf16be" -> <<254, 255>>
    [] bom = "utf32le" -> <<255, 254, 0, 0>>
    [] bom = "utf32be" -> <<0, 0, 254, 255>>
    [] OTHER           -> <<>>

getBytesPerBom(bom) == Len(bomMap(bom))

getBytesPerControlChar(bom) ==
  CASE bom \in {"utf16le", "utf16be"} -> 2
    [] bom \in {"utf32le", "utf32be"} -> 4
    [] OTHER                          -> 1

\* The bytes of the control unit with code c under the variant bom.
controlChar(c, bom) ==
  CASE bom = "utf16le" -> <<c, 0>>
    [] bom = "utf16be" -> <<0, c>>
    [] bom = "utf32le" -> <<c, 0, 0, 0>>
    [] bom = "utf32be" -> <<0, 0, 0, c>>
    [] OTHER           -> <<c>>

\* Buffer.prototype.slice(start, end) for 0 <= start: end is clamped to the
\* length, and an empty range gives the empty buffer.
slice(buf, start, end) ==
  LET e == Min(end, Len(buf))
  IN  IF start >= e THEN <<>> ELSE SubSeq(buf, start + 1, e)

startsWith(buf, prefix) ==
  /\ Len(buf) >= Len(prefix)
  /\ SubSeq(buf, 1, Len(prefix)) = prefix

\* Longer signatures are matched first.
detectBomFromBuffer(buf) ==
  CASE startsWith(buf, bomMap("utf32le")) -> "utf32le"
    [] startsWith(buf, bomMap("utf32be")) -> "utf32be"
    [] startsWith(buf, bomMap("utf8"))    -> "utf8"
    [] startsWith(buf, bomMap("utf16le")) -> "utf16le"
    [] startsWith(buf, bomMap("utf16be")) -> "utf16be"
    [] OTHER                              -> "none"

isByteSequenceCR(byteSequence, bom) == byteSequence = controlChar(13, bom)

isByteSequenceLF(byteSequence, bom) == byteSequence = controlChar(10, bom)

\* A unit of the full width whose bytes are all zero.
doesByteSequenceSuggestBinary(byteSequence, bom) ==
  byteSequence = controlChar(0, bom)

(***************************************************************************)
(* The state.                                                              *)
(***************************************************************************)
VARIABLES
  disk,                   \* the bytes of the file at filePath
  phase,                  \* how many operations the caller has started
  \* determineProcessingStatusOfFile: the closure of one pass
  cpc,                    \* what the pass is waiting for
  bom,                    \* the variant detectBom reported
  status,
  needsFixing,
  lastByteSequenceWasCR,
  offset,                 \* the reader's offset into the file
  reads,                  \* control-unit reads issued in this pass
  cdone,                  \* the statuses handed to done in this pass
  \* convertFileFromDosToUnix
  wpc,                    \* what the rewrite is waiting for
  buffer,                 \* the bytes fs.readFile delivered
  wq,                     \* chunks handed to outFile and not yet flushed
  ending,                 \* outFile.end was called
  wdone,                  \* calls of done by this rewrite
  \* the record of the run
  orig,                   \* the file as it was at the start
  first,                  \* what the first pass reported ("none": nothing)
  failed                  \* the I/O operations that failed

vars == <<disk, phase, cpc, bom, status, needsFixing, lastByteSequenceWasCR,
          offset, reads, cdone, wpc, buffer, wq, ending, wdone,
          orig, first, failed>>

cvars == <<cpc, bom, status, needsFixing, lastByteSequenceWasCR,
           offset, reads, cdone>>

wvars == <<wpc, buffer, wq, ending, wdone>>

(***************************************************************************)
(* The files Init draws: a BOM, up to MaxUnits control units of that       *)
(* encoding, and possibly one stray byte after the last unit.              *)
(***************************************************************************)
UnitCodes == {0, 10, 13, 97}

InputBoms == {"none", "utf16le"}

RECURSIVE encodeUnits(_, _)
encodeUnits(units, b) ==
  IF units = <<>> THEN <<>>
  ELSE controlChar(Head(units), b) \o encodeUnits(Tail(units), b)

UnitSeqs == UNION {[1..n -> UnitCodes] : n \in 0..MaxUnits}

Files ==
  {bomMap(b) \o encodeUnits(u, b) \o t :
     b \in InputBoms, u \in UnitSeqs, t \in {<<>>, <<97>>}}

Init ==
  /\ disk \in Files
  /\ orig = disk
  /\ phase = 0
  /\ cpc = "idle"
  /\ bom = "undefined"
  /\ status = "good"
  /\ needsFixing = FALSE
  /\ lastByteSequenceWasCR = FALSE
  /\ offset = 0
  /\ reads = 0
  /\ cdone = <<>>
  /\ wpc = "idle"
  /\ buffer = <<>>
  /\ wq = <<>>
  /\ ending = FALSE
  /\ wdone = 0
  /\ first = "none"
  /\ failed = {}

(***************************************************************************)
(* determineProcessingStatusOfFile.                                        *)
(***************************************************************************)
\* done(null, s) of the pass.
ClassifyDone(s) ==
  /\ cdone' = Append(cdone, s)
  /\ cpc' = "done"

\* BinaryReader.isOffsetOutOfWindow: the offset is past the last byte.
isOffsetOutOfWindow(off, size) == off >= size

\* classifyWindow with needsFixing assigned from every window instead of
\* only ever set: a window after the pair clears it.
classifyWindowForgetful(byteSequence, b, lastWasCR, needs) ==
  IF doesByteSequenceSuggestBinary(byteSequence, b)
  THEN [binary |-> TRUE, lastWasCR |-> lastWasCR, needs |-> needs]
  ELSE IF isByteSequenceCR(byteSequence, b)
  THEN [binary |-> FALSE, lastWasCR |-> TRUE, needs |-> needs]
  ELSE [binary |-> FALSE, lastWasCR |-> FALSE,
        needs |-> lastWasCR /\ isByteSequenceLF(byteSequence, b)]

\* classifyWindow with the binary test skipped once a CR LF pair was seen.
classifyWindowBinaryUnlessFixing(byteSequence, b, lastWasCR, needs) ==
  IF ~needs /\ doesByteSequenceSuggestBinary(byteSequence, b)
  THEN [binary |-> TRUE, lastWasCR |-> lastWasCR, needs |-> needs]
  ELSE IF isByteSequenceCR(byteSequence, b)
  THEN [binary |-> FALSE, lastWasCR |-> TRUE, needs |-> needs]
  ELSE [binary |-> FALSE, lastWasCR |-> FALSE,
        needs |-> needs \/ (lastWasCR /\ isByteSequenceLF(byteSequence, b))]

\* classifyWindow with the LF test not guarded by lastByteSequenceWasCR: any
\* LF window sets needsFixing.
classifyWindowAnyLF(byteSequence, b, lastWasCR, needs) ==
  IF doesByteSequenceSuggestBinary(byteSequence, b)
  THEN [binary |-> TRUE, lastWasCR |-> lastWasCR, needs |-> needs]
  ELSE IF isByteSequenceCR(byteSequence, b)
  THEN [binary |-> FALSE, lastWasCR |-> TRUE, needs |-> needs]
  ELSE [binary |-> FALSE, lastWasCR |-> FALSE,
        needs |-> needs \/ isByteSequenceLF(byteSequence, b)]

\* Lines 43-55 on one full window: whether the pass returns 'binary', and
\* the two flags after the window.
classifyWindow(byteSequence, b, lastWasCR, needs) ==
  IF doesByteSequenceSuggestBinary(byteSequence, b)
  THEN [binary |-> TRUE, lastWasCR |-> lastWasCR, needs |-> needs]
  ELSE IF isByteSequenceCR(byteSequence, b)
  THEN [binary |-> FALSE, lastWasCR |-> TRUE, needs |-> needs]
  ELSE [binary |-> FALSE, lastWasCR |-> FALSE,
        needs |-> needs \/ (lastWasCR /\ isByteSequenceLF(byteSequence, b))]

\* Lines 60-62.
statusAtEOF(s, needs) == IF s = "good" /\ needs THEN "bad" ELSE s

ClassifyQuiet == cpc \in {"idle", "done", "stalled"}

RewriteQuiet ==
  \/ wpc \in {"idle", "noread", "closed", "errored"}
  \/ wpc = "flush" /\ wq = <<>> /\ ~ending

\* The caller invokes determineProcessingStatusOfFile(filePath, done): on
\* the file as found, and once more after the rewrite.
Classify ==
  /\ phase \in {0, 2}
  /\ ClassifyQuiet /\ RewriteQuiet
  /\ phase' = phase + 1
  /\ cpc' = "detectBom"
  /\ cdone' = <<>>
  /\ reads' = 0
  /\ offset' = 0
  /\ UNCHANGED <<disk, bom, status, needsFixing, lastByteSequenceWasCR,
                 wvars, orig, first, failed>>

\* The callback of encoder.detectBom (lines 27-34 and 84-102); err is
\* ignored by the code, and bom is then undefined.
DetectBomCallback ==
  /\ cpc = "detectBom"
  /\ \E err \in BOOLEAN :
       /\ bom' = IF err THEN "undefined" ELSE detectBomFromBuffer(slice(disk, 0, 4))
       /\ failed' = IF err THEN failed \cup {"detectBom"} ELSE failed
  /\ status' = "good"
  /\ needsFixing' = FALSE
  /\ lastByteSequenceWasCR' = FALSE
  /\ offset' = 0
  /\ IF getBytesPerBom(bom') > 0
     THEN cpc' = "bomRead" /\ reads' = reads
     ELSE cpc' = "read" /\ reads' = reads + 1
  /\ UNCHANGED <<disk, phase, cdone, wvars, orig, first>>

\* The callback of reader.read(bytesPerBom, ...) (lines 86-98).
BomReadCallback ==
  /\ cpc = "bomRead"
  /\ \E err \in BOOLEAN :
       LET bytesRead == Min(getBytesPerBom(bom), Len(disk) - offset)
       IN  IF err \/ bytesRead < getBytesPerBom(bom)
           THEN /\ status' = "error"
                /\ ClassifyDone("error")
                /\ failed' = IF err THEN failed \cup {"read"} ELSE failed
                /\ UNCHANGED <<offset, reads>>
           ELSE /\ offset' = offset + bytesRead
                /\ cpc' = "read"
                /\ reads' = reads + 1
                /\ UNCHANGED <<status, cdone, failed>>
  /\ UNCHANGED <<disk, phase, bom, needsFixing, lastByteSequenceWasCR,
                 wvars, orig, first>>

\* readCallback (lines 36-82).
ReadCallback ==
  /\ cpc = "read"
  /\ \E err \in BOOLEAN :
       LET n == getBytesPerControlChar(bom)
           bytesRead == Min(n, IF Len(disk) > offset THEN Len(disk) - offset ELSE 0)
           buf == slice(disk, offset, offset + n)
           w == classifyWindow(buf, bom, lastByteSequenceWasCR, needsFixing)
       IN  IF err
           THEN /\ status' = "error"
                /\ ClassifyDone("error")
                /\ failed' = failed \cup {"read"}
                /\ UNCHANGED <<needsFixing, lastByteSequenceWasCR, offset>>
           ELSE /\ failed' = failed
                /\ offset' = offset + bytesRead
                /\ IF bytesRead = n
                   THEN IF w.binary
                        THEN /\ status' = "binary"
                             /\ ClassifyDone("binary")
                             /\ UNCHANGED <<needsFixing, lastByteSequenceWasCR>>
                        ELSE /\ lastByteSequenceWasCR' = w.lastWasCR
                             /\ needsFixing' = w.needs
                             /\ cdone' = cdone
                             /\ IF isOffsetOutOfWindow(offset', Len(disk))
                                THEN /\ status' = statusAtEOF(status, w.needs)
                                     /\ cpc' = "closing"
                                ELSE /\ status' = status
                                     /\ cpc' = "tick"
                   ELSE IF bytesRead > 0
                   THEN /\ status' = "error"
                        /\ ClassifyDone("error")
                        /\ UNCHANGED <<needsFixing, lastByteSequenceWasCR>>
                   ELSE \* bytesRead = 0: no branch of the callback is taken
                        /\ cpc' = "stalled"
                        /\ UNCHANGED <<status, cdone, needsFixing,
                                       lastByteSequenceWasCR>>
  /\ UNCHANGED <<disk, phase, bom, reads, wvars, orig, first>>

\* The process.nextTick callback (lines 72-74) issues the next read.
NextTickRead ==
  /\ cpc = "tick"
  /\ cpc' = "read"
  /\ reads' = reads + 1
  /\ UNCHANGED <<disk, phase, bom, status, needsFixing, lastByteSequenceWasCR,
                 offset, cdone, wvars, orig, first, failed>>

\* The callback of reader.close (lines 64-69).
CloseCallback ==
  /\ cpc = "closing"
  /\ \E errClosing \in BOOLEAN :
       failed' = IF errClosing THEN failed \cup {"close"} ELSE failed
  /\ ClassifyDone(status)
  /\ UNCHANGED <<disk, phase, bom, status, needsFixing, lastByteSequenceWasCR,
                 offset, reads, wvars, orig, first>>

(***************************************************************************)
(* convertFileFromDosToUnix.                                               *)
(***************************************************************************)
\* The for loop of lines 128-149, run from index b: out.writes are the
\* chunks handed to outFile.write and outFile.end in order, out.ended is
\* whether outFile.end was called.  isByteSequenceCR is called without bom
\* (line 130), isByteSequenceLF with it (line 134).
RECURSIVE convertLoop(_, _, _, _, _, _)
convertLoop(buf, b, bomOfBuf, lastWasCR, lastWriteIndex, out) ==
  LET bytesPerControlChar == getBytesPerControlChar(bomOfBuf)
      len == Len(buf)
      byteSequence == slice(buf, b, b + bytesPerControlChar)
  IN  IF ~(b < len) THEN out
      ELSE IF isByteSequenceCR(byteSequence, "undefined")
      THEN convertLoop(buf, b + bytesPerControlChar, bomOfBuf, TRUE,
                       lastWriteIndex, out)
      ELSE IF lastWasCR /\ isByteSequenceLF(byteSequence, bomOfBuf)
      THEN convertLoop(buf, b + bytesPerControlChar, bomOfBuf, FALSE, b,
                       [out EXCEPT !.writes =
                          Append(@, slice(buf, lastWriteIndex,
                                          b - bytesPerControlChar))])
      ELSE IF b + bytesPerControlChar = len
      THEN convertLoop(buf, b + bytesPerControlChar, bomOfBuf, FALSE,
                       lastWriteIndex,
                       [writes |-> Append(out.writes,
                                          slice(buf, lastWriteIndex,
                                                b + bytesPerControlChar)),
                        ended |-> TRUE])
      ELSE convertLoop(buf, b + bytesPerControlChar, bomOfBuf, FALSE,
                       lastWriteIndex, out)

\* Lines 121-149: what the synchronous part of the readFile callback hands
\* to the write stream.
convertBuffer(buf) ==
  LET bomOfBuf == detectBomFromBuffer(slice(buf, 0, 4))
  IN  convertLoop(buf, getBytesPerBom(bomOfBuf), bomOfBuf, FALSE, 0,
                  [writes |-> <<>>, ended |-> FALSE])

\* The caller invokes convertFileFromDosToUnix(filePath, done) once the
\* classification pass is over (lines 106-107).
Convert ==
  /\ phase = 1
  /\ ClassifyQuiet
  /\ phase' = 2
  /\ wpc' = "readFile"
  /\ first' = IF cdone = <<>> THEN "none" ELSE cdone[1]
  /\ UNCHANGED <<disk, cvars, buffer, wq, ending, wdone, orig, failed>>

\* The callback of fs.readFile (lines 107-151): on err only a log line,
\* otherwise the write stream is created and the loop hands it its chunks.
ReadFileCallback ==
  /\ wpc = "readFile"
  /\ \E err \in BOOLEAN :
       IF err
       THEN /\ wpc' = "noread"
            /\ failed' = failed \cup {"readFile"}
            /\ UNCHANGED <<buffer, wq, ending>>
       ELSE /\ buffer' = disk
            /\ wq' = convertBuffer(disk).writes
            /\ ending' = convertBuffer(disk).ended
            /\ wpc' = "open"
            /\ failed' = failed
  /\ UNCHANGED <<disk, phase, cvars, wdone, orig, first>>

\* fs.createWriteStream(filePath) opens the file with flag 'w', which
\* truncates it; a failure is the stream's 'error' event (lines 113-116).
StreamOpen ==
  /\ wpc = "open"
  /\ \E err \in BOOLEAN :
       IF err
       THEN /\ wpc' = "errored"
            /\ wdone' = wdone + 1
            /\ failed' = failed \cup {"open"}
            /\ UNCHANGED disk
       ELSE /\ wpc' = "flush"
            /\ disk' = <<>>
            /\ UNCHANGED <<wdone, failed>>
  /\ UNCHANGED <<phase, cvars, buffer, wq, ending, orig, first>>

\* The stream flushes its oldest chunk to the file, or fails to.
StreamFlush ==
  /\ wpc = "flush"
  /\ wq # <<>>
  /\ \E err \in BOOLEAN :
       IF err
       THEN /\ wpc' = "errored"
            /\ wdone' = wdone + 1
            /\ failed' = failed \cup {"write"}
            /\ UNCHANGED <<disk, wq>>
       ELSE /\ disk' = disk \o Head(wq)
            /\ wq' = Tail(wq)
            /\ UNCHANGED <<wpc, wdone, failed>>
  /\ UNCHANGED <<phase, cvars, buffer, ending, orig, first>>

\* After outFile.end and the last flush the stream closes: its 'close'
\* event calls done (lines 117-119).
StreamClose ==
  /\ wpc = "flush"
  /\ wq = <<>>
  /\ ending
  /\ wpc' = "closed"
  /\ wdone' = wdone + 1
  /\ UNCHANGED <<disk, phase, cvars, buffer, wq, ending, orig, first, failed>>

\* A stream that failed may go on to emit 'close' as well (it does where
\* the stream is destroyed on error), which calls done again.
StreamCloseAfterError ==
  /\ wpc = "errored"
  /\ wpc' = "closed"
  /\ wdone' = wdone + 1
  /\ UNCHANGED <<disk, phase, cvars, buffer, wq, ending, orig, first, failed>>

Next ==
  \/ Classify
  \/ DetectBomCallback
  \/ BomReadCallback
  \/ ReadCallback
  \/ NextTickRead
  \/ CloseCallback
  \/ Convert
  \/ ReadFileCallback
  \/ StreamOpen
  \/ StreamFlush
  \/ StreamClose
  \/ StreamCloseAfterError

Spec == Init /\ [][Next]_vars

(***************************************************************************)
(* What the properties speak about: the control units of a file under the  *)
(* BOM variant its leading bytes give, and the states in which an          *)
(* operation has nothing left to run.                                      *)
(***************************************************************************)
fileBom(f) == detectBomFromBuffer(slice(f, 0, 4))

unitWidth(f) == getBytesPerControlChar(fileBom(f))

bodyLen(f) == Len(f) - getBytesPerBom(fileBom(f))

\* The number of whole control units after the BOM.
numUnits(f) == bodyLen(f) \div unitWidth(f)

\* The i-th control unit after the BOM, counted from 0.
unitAt(f, i) ==
  SubSeq(f, getBytesPerBom(fileBom(f)) + i * unitWidth(f) + 1,
            getBytesPerBom(fileBom(f)) + (i + 1) * unitWidth(f))

Aligned(f) == bodyLen(f) % unitWidth(f) = 0

IsCRLFAt(f, i) ==
  /\ i + 1 < numUnits(f)
  /\ unitAt(f, i) = controlChar(13, fileBom(f))
  /\ unitAt(f, i + 1) = controlChar(10, fileBom(f))

CRLFPairs(f) == {i \in 0..(numUnits(f) - 1) : IsCRLFAt(f, i)}

HasCRLF(f) == CRLFPairs(f) # {}

HasCRByte(f) == \E k \in 1..Len(f) : f[k] = 13

BinaryUnits(f) ==
  {i \in 0..(numUnits(f) - 1) : unitAt(f, i) = controlChar(0, fileBom(f))}

FirstBinaryUnit(f) == CHOOSE i \in BinaryUnits(f) : \A j \in BinaryUnits(f) : i <= j

\* The file with every CR unit that an LF unit follows left out.
RECURSIVE withoutCRBeforeLF(_, _)
withoutCRBeforeLF(f, i) ==
  IF i >= numUnits(f)
  THEN slice(f, getBytesPerBom(fileBom(f)) + i * unitWidth(f), Len(f))
  ELSE IF IsCRLFAt(f, i) THEN withoutCRBeforeLF(f, i + 1)
  ELSE unitAt(f, i) \o withoutCRBeforeLF(f, i + 1)

Dos2Unix(f) == bomMap(fileBom(f)) \o withoutCRBeforeLF(f, 0)

\* A classification pass was started and no callback of it is pending.
PassSettled == phase \in {1, 3} /\ cpc \in {"done", "stalled"}

\* The rewrite was started and no callback or stream event of it is pending.
RewriteSettled ==
  /\ phase >= 2
  /\ \/ wpc \in {"noread", "closed", "errored"}
     \/ wpc = "flush" /\ wq = <<>> /\ ~ending

NoReadFailure == failed \cap {"detectBom", "read"} = {}

\* No I/O operation of the run failed.
NoFailure == failed = {}

(***************************************************************************)
(* The properties.                                                         *)
(***************************************************************************)
\* C1: once the rewrite of a file has nothing left to run and no I/O of the
\* run failed, the file holds the bytes it was given with each CR unit that
\* an LF unit follows removed, and every other byte in its place (stated
\* for the files the classifier reported 'bad', which the pipeline hands to
\* the rewriter).
C1_OutputIsInputWithoutCRBeforeLF ==
  (RewriteSettled /\ NoFailure /\ first = "bad") => disk = Dos2Unix(orig)

\* C2, as stated: a settled pass over a file that holds a CR unit directly
\* followed by an LF unit, and that was not reported binary, reported 'bad'.
C2_CRLFFileIsBad_AsStated ==
  (PassSettled /\ NoFailure /\ HasCRLF(disk) /\ cdone # <<"binary">>)
    => cdone = <<"bad">>

\* C2, amended: a settled pass whose reads succeeded, over a file that holds
\* a CR unit directly followed by an LF unit, whose length after the BOM is
\* a whole number of control units, and that was not reported binary,
\* reported 'bad' and nothing else.
C2_AlignedCRLFFileIsBad ==
  (PassSettled /\ NoReadFailure /\ HasCRLF(disk) /\ Aligned(disk)
     /\ cdone # <<"binary">>)
    => cdone = <<"bad">>

\* C2, its case: the pass over "a\r\nb" has reported 'bad'.
C2_Witness ==
  /\ PassSettled
  /\ phase = 1
  /\ disk = <<97, 13, 10, 97>>
  /\ cdone = <<"bad">>

\* C3: a settled pass over a file without any CR byte (one that is free of
\* binary units, holds whole units only and was read without failure)
\* reported 'good'.
C3_NoCRFileIsGood ==
  (PassSettled /\ NoFailure /\ ~HasCRByte(disk) /\ BinaryUnits(disk) = {}
     /\ Aligned(disk))
    => cdone = <<"good">>

\* C4: a pass with no callback left to run has called done exactly once,
\* with one of the four statuses.
C4_PassReportsStatus ==
  PassSettled =>
    /\ Len(cdone) = 1
    /\ cdone[1] \in {"good", "bad", "binary", "error"}

\* C5: a rewrite of a file classified 'bad' that has nothing left to run has
\* called done.
C5_RewriteSignalsCompletion ==
  (RewriteSettled /\ first = "bad" /\ NoFailure) => wdone >= 1

\* C6: when a file of 1-byte units was classified 'bad', its rewrite has
\* signalled completion and the pass over the rewritten file has reported,
\* that report is 'good'.
C6_RewrittenBadFileIsGood ==
  (PassSettled /\ phase = 3 /\ first = "bad" /\ NoFailure
     /\ wpc = "closed" /\ unitWidth(orig) = 1 /\ cdone # <<>>)
    => cdone = <<"good">>

\* C7: a rewrite of a file classified 'good' that has nothing left to run
\* has left the bytes of the file as they were.
C7_RewriteOfGoodFileIsNoOp ==
  (RewriteSettled /\ first = "good" /\ NoFailure) => disk = orig

\* C8: a settled pass whose reads succeeded, over a file with a binary unit,
\* reported 'binary' and nothing else, having issued exactly the reads up to
\* the first binary unit and consumed no byte after it.
C8_BinaryStopsScan ==
  (PassSettled /\ NoReadFailure /\ BinaryUnits(disk) # {})
    => /\ cdone = <<"binary">>
       /\ reads = FirstBinaryUnit(disk) + 1
       /\ offset = getBytesPerBom(fileBom(disk))
                     + (FirstBinaryUnit(disk) + 1) * unitWidth(disk)

\* C8, its case: 'binary' was reported after a CR LF pair had been seen and
\* with bytes of the file still unread.
C8_Witness ==
  /\ PassSettled
  /\ cdone = <<"binary">>
  /\ needsFixing
  /\ offset < Len(disk)

\* C9: a settled pass over a file with no byte after its BOM reported
\* 'good'.
C9_EmptyFileIsGood ==
  (PassSettled /\ NoFailure /\ bodyLen(disk) = 0) => cdone = <<"good">>

\* C10: once the rewrite has nothing left to run and none of its I/O failed,
\* the length of the file is the length of the input less one control-unit
\* width for every CR unit directly followed by an LF unit (stated for the
\* files the classifier reported 'bad').
C10_ByteLengthLaw ==
  (RewriteSettled /\ NoFailure /\ first = "bad")
    => Len(disk) = Len(orig) - unitWidth(orig) * Cardinality(CRLFPairs(orig))

\* C14: from the start of the rewrite of a file classified 'bad' on, the
\* file on disk holds either all of its original bytes or all of the
\* transformed bytes.
C14_DiskIsOriginalOrTransformed ==
  (phase >= 2 /\ first = "bad") => disk \in {orig, Dos2Unix(orig)}

\* The UTF-16 LE file of scenario D: BOM FF FE, then the 2-byte units of
\* a, CR, LF and a second letter.
ScenarioD == <<255, 254, 97, 0, 13, 0, 10, 0, 97, 0>>

\* C15: the pass over the scenario D file reports 'bad', and its rewrite
\* leaves the BOM, the LF unit and the two letters, without the CR unit.
C15_Utf16CRUnitDropped ==
  orig = ScenarioD =>
    /\ (PassSettled /\ phase = 1 /\ NoFailure) => cdone = <<"bad">>
    /\ (RewriteSettled /\ NoFailure)
         => disk = <<255, 254, 97, 0, 10, 0, 97, 0>>

\* The windows of the running pass that reached the CR and LF tests of lines
\* 47-55: the full windows read so far, less the one that returned 'binary'.
processedWindows ==
  IF offset < getBytesPerBom(bom) THEN 0
  ELSE ((offset - getBytesPerBom(bom)) \div getBytesPerControlChar(bom))
         - (IF status = "binary" THEN 1 ELSE 0)

\* The i-th window of the running pass, counted from 0.
windowAt(i) ==
  slice(disk, getBytesPerBom(bom) + i * getBytesPerControlChar(bom),
              getBytesPerBom(bom) + (i + 1) * getBytesPerControlChar(bom))

\* A pass is under way or over, and its closure has been set up.
PassRunning == phase \in {1, 3} /\ cpc \notin {"idle", "detectBom"}

\* C18: in every state of a pass lastByteSequenceWasCR is true exactly when
\* the window processed last was a CR, needsFixing is true exactly when some
\* processed LF window directly followed a processed CR window, and 'bad' is
\* reported only with needsFixing set.
C18_BadOnlyAfterCRThenLF ==
  PassRunning =>
    /\ lastByteSequenceWasCR
         <=> /\ processedWindows > 0
             /\ windowAt(processedWindows - 1) = controlChar(13, bom)
    /\ needsFixing
         <=> \E i \in 0..(processedWindows - 2) :
               /\ windowAt(i) = controlChar(13, bom)
               /\ windowAt(i + 1) = controlChar(10, bom)
    /\ (\E k \in 1..Len(cdone) : cdone[k] = "bad") => needsFixing

\* C18, its case: the pass over CR, a, CR (a CR before a window that is no
\* LF, and a trailing CR) has ended with 'good'.
C18_Witness ==
  /\ PassSettled
  /\ phase = 1
  /\ disk = <<13, 97, 13>>
  /\ lastByteSequenceWasCR
  /\ ~needsFixing
  /\ cdone = <<"good">>

\* C20: one rewrite calls done at most once (stated for the rewrites whose
\* stream opened, so that an 'error' is that of a write).
C20_DoneAtMostOnce == ("open" \notin failed) => wdone <= 1

(***************************************************************************)
(* The batch pipeline: dos2unix (lines 161-223) and                        *)
(* Dos2UnixConverter.prototype.process (lines 242-311) over the files the  *)
(* glob resolves.  In this specification every per-file variable holds a   *)
(* function from the paths of the batch (disk[f], cpc[f], wpc[f], ...),    *)
(* phase holds the record of the pipeline, first the statuses of the       *)
(* safety list, and failed the pairs <<path, operation>> that failed.      *)
(* cpc[f] = "closed" tells a pass whose reader was closed before done from *)
(* one that called done with the reader left open ("done").                *)
(***************************************************************************)
\* The number of files the glob resolves.
MaxFiles == 2

Paths == 1..MaxFiles

\* The contents a file of the batch may have: empty, "a", CR LF "a", a NUL,
\* and a UTF-16 LE BOM followed by a single byte.
BatchFiles ==
  {<<>>, <<97>>, <<13, 10, 97>>, <<0>>, <<255, 254, 97>>}

BatchInit ==
  /\ disk \in [Paths -> BatchFiles]
  /\ orig = disk
  /\ phase = [api |-> "none", stage |-> "new", thrown |-> "none",
              needsFixingFileList |-> {}, calls |-> <<>>, events |-> <<>>]
  /\ cpc = [f \in Paths |-> "idle"]
  /\ bom = [f \in Paths |-> "undefined"]
  /\ status = [f \in Paths |-> "good"]
  /\ needsFixing = [f \in Paths |-> FALSE]
  /\ lastByteSequenceWasCR = [f \in Paths |-> FALSE]
  /\ offset = [f \in Paths |-> 0]
  /\ reads = [f \in Paths |-> 0]
  /\ cdone = [f \in Paths |-> <<>>]
  /\ wpc = [f \in Paths |-> "idle"]
  /\ buffer = [f \in Paths |-> <<>>]
  /\ wq = [f \in Paths |-> <<>>]
  /\ ending = [f \in Paths |-> FALSE]
  /\ wdone = [f \in Paths |-> 0]
  /\ first = [f \in Paths |-> "none"]
  /\ failed = {}

\* The closure of the pass over f, and its assignment.
closureOf(f) ==
  [cpc |-> cpc[f], bom |-> bom[f], status |-> status[f],
   needsFixing |-> needsFixing[f],
   lastByteSequenceWasCR |-> lastByteSequenceWasCR[f],
   offset |-> offset[f], reads |-> reads[f], cdone |-> cdone[f]]

SetClosure(f, c) ==
  /\ cpc' = [cpc EXCEPT ![f] = c.cpc]
  /\ bom' = [bom EXCEPT ![f] = c.bom]
  /\ status' = [status EXCEPT ![f] = c.status]
  /\ needsFixing' = [needsFixing EXCEPT ![f] = c.needsFixing]
  /\ lastByteSequenceWasCR' =
       [lastByteSequenceWasCR EXCEPT ![f] = c.lastByteSequenceWasCR]
  /\ offset' = [offset EXCEPT ![f] = c.offset]
  /\ reads' = [reads EXCEPT ![f] = c.reads]
  /\ cdone' = [cdone EXCEPT ![f] = c.cdone]

\* return done(null, s) with the reader left open (lines 40, 45, 80, 90, 95).
returnDone(c, s) ==
  [c EXCEPT !.status = s, !.cdone = Append(@, s), !.cpc = "done"]

\* Lines 27-34 and 84-102 on the closure of a pass.
detectBomStep(c, file, err) ==
  LET b == IF err THEN "undefined" ELSE detectBomFromBuffer(slice(file, 0, 4))
  IN  [c EXCEPT !.bom = b, !.status = "good", !.needsFixing = FALSE,
                !.lastByteSequenceWasCR = FALSE, !.offset = 0,
                !.cpc = IF getBytesPerBom(b) > 0 THEN "bomRead" ELSE "read",
                !.reads = IF getBytesPerBom(b) > 0 THEN @ ELSE @ + 1]

\* Lines 86-98.
bomReadStep(c, file, err) ==
  LET bytesRead == Min(getBytesPerBom(c.bom), Len(file) - c.offset)
  IN  IF err \/ bytesRead < getBytesPerBom(c.bom)
      THEN returnDone(c, "error")
      ELSE [c EXCEPT !.offset = @ + bytesRead, !.cpc = "read", !.reads = @ + 1]

\* afterWindow with done called as soon as the end of the file is seen,
\* the reader never being closed.
afterWindowNoClose(outOfWindow) ==
  IF outOfWindow THEN [cpc |-> "done", report |-> TRUE]
  ELSE [cpc |-> "tick", report |-> FALSE]

\* Lines 59-75: at the end of the file the reader is closed and done waits
\* for the close callback; otherwise the next read is scheduled.
afterWindow(outOfWindow) ==
  IF outOfWindow THEN [cpc |-> "closing", report |-> FALSE]
  ELSE [cpc |-> "tick", report |-> FALSE]

\* readCallback (lines 36-82) on the closure of a pass.
readCallbackStep(c, file, err) ==
  LET n == getBytesPerControlChar(c.bom)
      bytesRead == Min(n, IF Len(file) > c.offset THEN Len(file) - c.offset ELSE 0)
      buf == slice(file, c.offset, c.offset + n)
      w == classifyWindow(buf, c.bom, c.lastByteSequenceWasCR, c.needsFixing)
      moved == [c EXCEPT !.offset = @ + bytesRead]
      eof == isOffsetOutOfWindow(moved.offset, Len(file))
      s == IF eof THEN statusAtEOF(c.status, w.needs) ELSE c.status
  IN  IF err THEN returnDone(c, "error")
      ELSE IF bytesRead = n
      THEN IF w.binary THEN returnDone(moved, "binary")
           ELSE [moved EXCEPT !.lastByteSequenceWasCR = w.lastWasCR,
                              !.needsFixing = w.needs,
                              !.status = s,
                              !.cpc = afterWindow(eof).cpc,
                              !.cdone = IF afterWindow(eof).report
                                        THEN Append(@, s) ELSE @]
      ELSE IF bytesRead > 0 THEN returnDone(moved, "error")
      ELSE [moved EXCEPT !.cpc = "stalled"]

Fail(f, op, err) == failed' = IF err THEN failed \cup {<<f, op>>} ELSE failed

\* dos2unix(globPatterns, options, done) with valid arguments (lines
\* 161-173): the glob is started.
dos2unix ==
  /\ phase.stage = "new"
  /\ phase' = [phase EXCEPT !.api = "dos2unix", !.stage = "glob"]
  /\ UNCHANGED <<disk, cvars, wvars, orig, first, failed>>

\* Dos2UnixConverter.prototype.process (lines 242-311): the glob is started
\* and the chain is built up to its fourth then; the argument of
\* .fail(done) (line 309) names a variable that no scope of the file
\* defines, so the call throws a ReferenceError before the failure handler
\* and .done() are attached.
process ==
  /\ phase.stage = "new"
  /\ phase' = [phase EXCEPT !.api = "process", !.stage = "glob",
                            !.thrown = "ReferenceError"]
  /\ UNCHANGED <<disk, cvars, wvars, orig, first, failed>>

\* The glob promise settles (lines 173-180, 244-251).  Rejected, dos2unix
\* hands the error to done through .fail(done), while the chain of process
\* has no failure handler; fulfilled, a pass is started on every file.
GlobCallback ==
  /\ phase.stage = "glob"
  /\ \E err \in BOOLEAN :
       IF err
       THEN /\ failed' = failed \cup {<<0, "glob">>}
            /\ phase' = IF phase.api = "dos2unix"
                        THEN [phase EXCEPT !.stage = "failed",
                                           !.calls = Append(@, "failure")]
                        ELSE [phase EXCEPT !.stage = "rejected"]
            /\ UNCHANGED cpc
       ELSE /\ failed' = failed
            /\ phase' = [phase EXCEPT !.stage = "classify"]
            /\ cpc' = [f \in Paths |-> "detectBom"]
  /\ UNCHANGED <<disk, bom, status, needsFixing, lastByteSequenceWasCR,
                 offset, reads, cdone, wvars, orig, first>>

\* The callback of encoder.detectBom for f (lines 27-34, 84-102).
DetectBomCallbackOf(f) ==
  /\ cpc[f] = "detectBom"
  /\ \E err \in BOOLEAN :
       /\ SetClosure(f, detectBomStep(closureOf(f), disk[f], err))
       /\ Fail(f, "detectBom", err)
  /\ UNCHANGED <<disk, phase, wvars, orig, first>>

\* The callback of the BOM read of f (lines 86-98).
BomReadCallbackOf(f) ==
  /\ cpc[f] = "bomRead"
  /\ \E err \in BOOLEAN :
       /\ SetClosure(f, bomReadStep(closureOf(f), disk[f], err))
       /\ Fail(f, "read", err)
  /\ UNCHANGED <<disk, phase, wvars, orig, first>>

\* readCallback of f (lines 36-82).
ReadCallbackOf(f) ==
  /\ cpc[f] = "read"
  /\ \E err \in BOOLEAN :
       /\ SetClosure(f, readCallbackStep(closureOf(f), disk[f], err))
       /\ Fail(f, "read", err)
  /\ UNCHANGED <<disk, phase, wvars, orig, first>>

\* The process.nextTick callback of f (lines 72-74).
NextTickReadOf(f) ==
  /\ cpc[f] = "tick"
  /\ SetClosure(f, [closureOf(f) EXCEPT !.cpc = "read", !.reads = @ + 1])
  /\ UNCHANGED <<disk, phase, wvars, orig, first, failed>>

\* The callback of reader.close of f (lines 64-69).
CloseCallbackOf(f) ==
  /\ cpc[f] = "closing"
  /\ \E errClosing \in BOOLEAN : Fail(f, "close", errClosing)
  /\ SetClosure(f, [closureOf(f) EXCEPT !.cpc = "closed",
                                        !.cdone = Append(@, status[f])])
  /\ UNCHANGED <<disk, phase, wvars, orig, first>>

\* What the promise of the pass over f was resolved with ("none": it is
\* still pending).
resolvedStatus(f) == IF cdone[f] = <<>> THEN "none" ELSE cdone[f][1]

\* allClassified with the wait ending at the first resolved pass.
anyClassified == \E f \in Paths : cdone[f] # <<>>

\* Q.all over the passes (lines 176-180): every promise is resolved.
allClassified == \A f \in Paths : cdone[f] # <<>>

\* needsFixingFileList keeping every file that is not 'good'.
filterNotGood(safetyList) == {f \in Paths : safetyList[f] # "good"}

\* needsFixingFileList dropping only the files in 'error' and 'binary'.
filterNotSkipped(safetyList) ==
  {f \in Paths : safetyList[f] \notin {"error", "binary"}}

\* The filter and map of lines 189-206.
needsFixingFileList(safetyList) == {f \in Paths : safetyList[f] = "bad"}

\* The then callbacks that run once every pass is resolved (lines 181-217,
\* 252-305).  dos2unix filters the list and calls convertFileFromDosToUnix
\* on each file left.  In process the filter callback is a plain function
\* of a strict-mode file, its this is undefined, and this.emit throws on
\* the first file: the promise is rejected with nothing emitted.
SafetyList ==
  /\ phase.stage = "classify"
  /\ allClassified
  /\ first' = [f \in Paths |-> resolvedStatus(f)]
  /\ IF phase.api = "dos2unix"
     THEN /\ phase' = [phase EXCEPT !.stage = "convert",
                         !.needsFixingFileList = needsFixingFileList(first')]
          /\ wpc' = [f \in Paths |->
                       IF f \in needsFixingFileList(first')
                       THEN "readFile" ELSE wpc[f]]
     ELSE /\ phase' = [phase EXCEPT !.stage = "rejected"]
          /\ UNCHANGED wpc
  /\ UNCHANGED <<disk, cvars, buffer, wq, ending, wdone, orig, failed>>

\* The callback of fs.readFile for f (lines 107-151).
ReadFileCallbackOf(f) ==
  /\ wpc[f] = "readFile"
  /\ \E err \in BOOLEAN :
       /\ Fail(f, "readFile", err)
       /\ IF err
          THEN /\ wpc' = [wpc EXCEPT ![f] = "noread"]
               /\ UNCHANGED <<buffer, wq, ending>>
          ELSE /\ buffer' = [buffer EXCEPT ![f] = disk[f]]
               /\ wq' = [wq EXCEPT ![f] = convertBuffer(disk[f]).writes]
               /\ ending' = [ending EXCEPT ![f] = convertBuffer(disk[f]).ended]
               /\ wpc' = [wpc EXCEPT ![f] = "open"]
  /\ UNCHANGED <<disk, phase, cvars, wdone, orig, first>>

\* The write stream of f opens, truncating the file, or fails to (lines
\* 112-116).
StreamOpenOf(f) ==
  /\ wpc[f] = "open"
  /\ \E err \in BOOLEAN :
       /\ Fail(f, "open", err)
       /\ IF err
          THEN /\ wpc' = [wpc EXCEPT ![f] = "errored"]
               /\ wdone' = [wdone EXCEPT ![f] = @ + 1]
               /\ UNCHANGED disk
          ELSE /\ wpc' = [wpc EXCEPT ![f] = "flush"]
               /\ disk' = [disk EXCEPT ![f] = <<>>]
               /\ UNCHANGED wdone
  /\ UNCHANGED <<phase, cvars, buffer, wq, ending, orig, first>>

\* The write stream of f flushes its oldest chunk, or fails to.
StreamFlushOf(f) ==
  /\ wpc[f] = "flush"
  /\ wq[f] # <<>>
  /\ \E err \in BOOLEAN :
       /\ Fail(f, "write", err)
       /\ IF err
          THEN /\ wpc' = [wpc EXCEPT ![f] = "errored"]
               /\ wdone' = [wdone EXCEPT ![f] = @ + 1]
               /\ UNCHANGED <<disk, wq>>
          ELSE /\ disk' = [disk EXCEPT ![f] = @ \o Head(wq[f])]
               /\ wq' = [wq EXCEPT ![f] = Tail(@)]
               /\ UNCHANGED <<wpc, wdone>>
  /\ UNCHANGED <<phase, cvars, buffer, ending, orig, first>>

\* The 'close' event of the ended stream of f (lines 117-119).
StreamCloseOf(f) ==
  /\ wpc[f] = "flush"
  /\ wq[f] = <<>>
  /\ ending[f]
  /\ wpc' = [wpc EXCEPT ![f] = "closed"]
  /\ wdone' = [wdone EXCEPT ![f] = @ + 1]
  /\ UNCHANGED <<disk, phase, cvars, buffer, wq, ending, orig, first, failed>>

\* The 'close' event of the failed stream of f.
StreamCloseAfterErrorOf(f) ==
  /\ wpc[f] = "errored"
  /\ wpc' = [wpc EXCEPT ![f] = "closed"]
  /\ wdone' = [wdone EXCEPT ![f] = @ + 1]
  /\ UNCHANGED <<disk, phase, cvars, buffer, wq, ending, orig, first, failed>>

\* Q.all over the rewrites is resolved and the last then calls done()
\* (lines 211-220).
AllConverted ==
  /\ phase.stage = "convert"
  /\ \A f \in phase.needsFixingFileList : wdone[f] >= 1
  /\ phase' = [phase EXCEPT !.stage = "done", !.calls = Append(@, "success")]
  /\ UNCHANGED <<disk, cvars, wvars, orig, first, failed>>

BatchNext ==
  \/ dos2unix
  \/ process
  \/ GlobCallback
  \/ \E f \in Paths : DetectBomCallbackOf(f)
  \/ \E f \in Paths : BomReadCallbackOf(f)
  \/ \E f \in Paths : ReadCallbackOf(f)
  \/ \E f \in Paths : NextTickReadOf(f)
  \/ \E f \in Paths : CloseCallbackOf(f)
  \/ SafetyList
  \/ \E f \in Paths : ReadFileCallbackOf(f)
  \/ \E f \in Paths : StreamOpenOf(f)
  \/ \E f \in Paths : StreamFlushOf(f)
  \/ \E f \in Paths : StreamCloseOf(f)
  \/ \E f \in Paths : StreamCloseAfterErrorOf(f)
  \/ AllConverted

SpecBatch == BatchInit /\ [][BatchNext]_vars

(***************************************************************************)
(* The properties of the batch pipeline.                                   *)
(***************************************************************************)
\* The write stream of f has been created.
StreamCreated(f) == wpc[f] \in {"open", "flush", "errored", "closed"}

\* C11: a file whose rewrite has started has had its own pass completed,
\* and that pass reported 'bad' and nothing else.
C11_RewriteOnlyAfterOwnBad ==
  \A f \in Paths :
    wpc[f] # "idle" => /\ cpc[f] \in {"done", "closed"}
                       /\ cdone[f] = <<"bad">>

\* C11, its case: one file is being rewritten while another, reported
\* 'good', is left alone.
C11_Witness ==
  \E f, g \in Paths :
    /\ wpc[f] = "flush"
    /\ cdone[g] = <<"good">>
    /\ wpc[g] = "idle"

\* Files that are classified and, when 'bad', rewritten to completion as
\* long as no I/O operation fails.
SoundFiles == {<<97>>, <<13, 10, 97>>}

\* C12: when the batch of dos2unix has nothing left to run and the only
\* I/O failures were those of one file, every other file was classified,
\* every other 'bad' file was rewritten, and done was called once, through
\* the success path (stated for batches of files that complete when nothing
\* fails).
C12_FailureIsolation ==
  \A f \in Paths :
    ( /\ phase.api = "dos2unix"
      /\ ~ENABLED BatchNext
      /\ \A g \in Paths : orig[g] \in SoundFiles
      /\ failed # {}
      /\ \A p \in failed : p[1] = f )
    => /\ phase.calls = <<"success">>
       /\ \A g \in Paths \ {f} :
            /\ cdone[g] # <<>>
            /\ cdone[g][1] = "bad" => disk[g] = Dos2Unix(orig[g])

\* C13: when a batch started by process has nothing left to run and no I/O
\* failed, an event was emitted for every file and the last event emitted
\* is 'end' or 'error' (stated for batches of files that complete when
\* nothing fails).
C13_EmitterReportsAndEnds ==
  ( /\ phase.api = "process"
    /\ ~ENABLED BatchNext
    /\ \A g \in Paths : orig[g] \in SoundFiles
    /\ failed = {} )
  => /\ Len(phase.events) >= 1
     /\ phase.events[Len(phase.events)].type \in {"end", "error"}
     /\ \A f \in Paths :
          \E k \in 1..Len(phase.events) : phase.events[k].file = f

\* C16: once the write stream of a file is created, the pass over that file
\* has called done after its reader was closed, no read of the pass is
\* pending, and fs.readFile has delivered the whole file.
C16_NoReadWhileWriting ==
  \A f \in Paths :
    StreamCreated(f) => /\ cpc[f] = "closed"
                        /\ cdone[f] # <<>>
                        /\ buffer[f] = orig[f]

\* C16, its case: a non-empty file is open for writing after its pass closed
\* the reader.
C16_Witness ==
  \E f \in Paths :
    /\ wpc[f] = "flush"
    /\ cpc[f] = "closed"
    /\ buffer[f] # <<>>

\* C17: a file whose pass reported 'good', 'binary' or 'error' has no
\* rewrite started on it and holds its original bytes, and until every pass
\* is over no file is changed.
C17_OnlyBadFilesAreWritten ==
  /\ \A f \in Paths :
       resolvedStatus(f) \in {"good", "binary", "error"}
         => wpc[f] = "idle" /\ disk[f] = orig[f]
  /\ phase.stage \in {"new", "glob", "classify"} => disk = orig

\* C17, its case: the batch is over, one file was rewritten and a file
\* reported 'binary' is as it was.
C17_Witness ==
  /\ phase.stage = "done"
  /\ \E f, g \in Paths :
       /\ first[f] = "binary"
       /\ disk[f] = orig[f]
       /\ first[g] = "bad"
       /\ disk[g] # orig[g]
       /\ disk[g] = Dos2Unix(orig[g])

\* C19: a rewrite has started only when the pass over every file of the
\* batch has called done; and while some pass has ended without calling
\* done, no rewrite has started and the batch has not called done.
C19_RewritesWaitForAllPasses ==
  /\ (\E f \in Paths : wpc[f] # "idle") => \A g \in Paths : cdone[g] # <<>>
  /\ (\E g \in Paths : cpc[g] = "stalled")
       => /\ \A f \in Paths : wpc[f] = "idle"
          /\ phase.calls = <<>>

\* C19, its case: the pass over one file has ended without calling done,
\* the pass over another has reported 'bad', and nothing is left to run.
C19_Witness ==
  /\ phase.api = "dos2unix"
  /\ ~ENABLED BatchNext
  /\ \E f, g \in Paths :
       /\ cpc[g] = "stalled"
       /\ cdone[f] = <<"bad">>

====
